---- MODULE Spec2Model ----
(***************************************************************************)
(* Review aggregation of the review API: the Google Play service           *)
(* (ReviewService: getReviews, fetchLargeDataset, fetchSingleBatch), the   *)
(* App Store service (AppStoreService: getReviews,                         *)
(* getReviewsWithPagination), the review routes and the CSV export routes  *)
(* that call them, and the CSV service (CSVService: escapeCsvField,        *)
(* removeEmojis, the two exports, getExportStats, the URL extractors).     *)
(*                                                                         *)
(* One behaviour is one request.  The upstream scrapers (gplay.reviews,    *)
(* appStore.reviews) are the environment: a store of `avail` records,      *)
(* record i being the i-th record of the upstream order, served in pages.  *)
(* Every await of the code is a point where the environment acts: a fetch  *)
(* returns a page or throws, a timer fires.                                *)
(***************************************************************************)
EXTENDS Integers, Sequences, FiniteSets, TLC

(* ----------------------------- bounds ---------------------------------- *)

\* Upstream replies of one request that deviate from "serve what was asked
\* while records remain, and give a token exactly when records remain".
MaxOdd == 1

\* Cap on the fetches of one request (never reached by the code as written).
MaxCalls == 9

\* Requested counts (the num parameter after the route's validation).
Targets == {1, 30, 50, 51, 100, 120, 150, 200, 201, 250, 251}

\* Records the upstream store holds.
Avails == {0, 20, 50, 100, 130, 150, 220, 250, 300}

\* Lengths of the short pages the upstream may serve although more remain.
ShortLens == {0, 20}

(* --------------------------- program constants ------------------------- *)

batchSize == 200          \* fetchLargeDataset: maximum per request
reviewsPerPage == 50      \* getReviewsWithPagination: App Store limit
LargeDatasetLimit == 200  \* getReviews: num > 200 takes the batch path
GplayRequestCap == 200    \* fetchSingleBatch: Math.min(num, 200)
SinglePageLimit == 50     \* route: numReviews <= 50 takes the single page
FullPage == 50            \* AppStoreService.getReviews: hasMore = length === 50

\* let nextToken: string | undefined  -- undefined (and every falsy token)
NoToken == 0

\* A continuation token a caller may pass in the query string.
CallerToken == 11

(* ------------------------------ helpers -------------------------------- *)

Min(a, b) == IF a < b THEN a ELSE b

Max(a, b) == IF a > b THEN a ELSE b

\* Math.ceil(a / b) for positive integers
Ceil(a, b) == (a + b - 1) \div b

\* The records first+1 .. first+n of the upstream order.
Range(first, n) == [i \in 1..n |-> first + i]

\* The token the upstream issues for "continue after `offset` records".
TokenFor(offset) == offset + 1

\* The position a token stands for; no token is the start.
OffsetOf(token) == IF token = NoToken THEN 0 ELSE token - 1

(* ------------------------------ text ----------------------------------- *)

\* A string is the sequence of its code points; a value of the program is a
\* string, undefined or null.
Comma == 44        \* ','
Quote == 34        \* '"'
Newline == 10      \* '\n'
Space == 32        \* ' '
Semicolon == 59    \* ';'

Str(s) == [type |-> "string", chars |-> s]

Undefined == [type |-> "undefined", chars |-> <<>>]

JsNull == [type |-> "null", chars |-> <<>>]

\* 'Null' and 'Nan', the two sentinels of escapeCsvField
NullText == <<78, 117, 108, 108>>

NanText == <<78, 97, 110>>

\* The characters \s matches and trim() removes (WhiteSpace and
\* LineTerminator of the language).
IsSpace(c) ==
    \/ c \in {9, 10, 11, 12, 13, 32, 160, 5760, 8232, 8233, 8239, 8287, 12288, 65279}
    \/ c \in 8192..8202

\* The characters the replace() calls of removeEmojis delete.
IsEmoji(c) ==
    \/ c \in 128512..128591    \* U+1F600-U+1F64F
    \/ c \in 127744..128511    \* U+1F300-U+1F5FF
    \/ c \in 128640..128767    \* U+1F680-U+1F6FF
    \/ c \in 127456..127487    \* U+1F1E0-U+1F1FF
    \/ c \in 9728..9983        \* U+2600-U+26FF
    \/ c \in 9984..10175       \* U+2700-U+27BF
    \/ c \in 9985..10174       \* U+2701-U+27BE
    \/ c \in 129280..129535    \* U+1F900-U+1F9FF
    \/ c \in 129648..129791    \* U+1FA70-U+1FAFF
    \/ c \in 65024..65039      \* U+FE00-U+FE0F
    \/ c \in 8400..8447        \* U+20D0-U+20FF
    \/ c = 8205                \* U+200D

\* s.includes(c)
Includes(s, c) == \E i \in 1..Len(s) : s[i] = c

\* s.replace(/\s+/g, ' '): every run of white space becomes one space
RECURSIVE CollapseSpaces(_)
CollapseSpaces(s) ==
    IF s = <<>> THEN <<>>
    ELSE IF IsSpace(Head(s))
    THEN IF Len(s) >= 2 /\ IsSpace(s[2])
         THEN CollapseSpaces(Tail(s))
         ELSE <<Space>> \o CollapseSpaces(Tail(s))
    ELSE <<Head(s)>> \o CollapseSpaces(Tail(s))

\* s.trim()
RECURSIVE TrimStart(_)
TrimStart(s) ==
    IF s # <<>> /\ IsSpace(Head(s)) THEN TrimStart(Tail(s)) ELSE s

RECURSIVE TrimEnd(_)
TrimEnd(s) ==
    IF s # <<>> /\ IsSpace(s[Len(s)]) THEN TrimEnd(SubSeq(s, 1, Len(s) - 1)) ELSE s

Trim(s) == TrimEnd(TrimStart(s))

\* s.replace(/"/g, '""')
RECURSIVE DoubleQuotes(_)
DoubleQuotes(s) ==
    IF s = <<>> THEN <<>>
    ELSE IF Head(s) = Quote
    THEN <<Quote, Quote>> \o DoubleQuotes(Tail(s))
    ELSE <<Head(s)>> \o DoubleQuotes(Tail(s))

VARIABLES
    platform,      \* "play" | "appstore": which route was called
    num,           \* numReviews, the validated target count
    optPaginate,   \* Play route: options.paginate
    optToken,      \* Play route: options.nextPaginationToken
    avail,         \* records the upstream holds
    odd,           \* deviating upstream replies so far
    pc,            \* where the request's control flow is suspended
    allReviews,    \* the accumulated records
    fetchedCount,  \* fetchLargeDataset: fetchedCount
    nextToken,     \* fetchLargeDataset: nextToken
    page,          \* getReviewsWithPagination: page
    calls,         \* every upstream fetch of the request, in order
    delays,        \* pacing timers that were started
    response,      \* what the route answered
    route,         \* "get" | "export": which endpoint of the platform
    url,           \* export routes: req.body.url
    appId,         \* export routes: the app identifier extracted from url
    clock,         \* the last value Date.now() gave
    files,         \* the export directory: file name -> file
    exportInfo,    \* export routes: what getExportStats reported
    arg,           \* the input of the function under study
    ret,           \* the values it returned, in order
    fn             \* which function was applied

\* The request's own state.
reqVars == <<platform, num, optPaginate, optToken, avail, odd, pc, allReviews,
             fetchedCount, nextToken, page, calls, delays, response>>

\* What the fetching steps of a request leave alone.
frameVars == <<route, url, appId, clock, files, exportInfo, arg, ret, fn>>

vars == <<reqVars, frameVars>>

NoResponse == [status |-> "none", reviews |-> <<>>,
               nextPaginationToken |-> NoToken, hasMore |-> FALSE]

\* res.status(500).json({error, message}): no data field
ErrorResponse == [status |-> "error", reviews |-> <<>>,
                  nextPaginationToken |-> NoToken, hasMore |-> FALSE]

\* res.json({success: true, data, meta}) of the Play route;
\* meta.hasNextPage = !!result.nextPaginationToken
PlayResponse(reviews, token) ==
    [status |-> "ok", reviews |-> reviews,
     nextPaginationToken |-> token, hasMore |-> token # NoToken]

\* res.json({success: true, data: reviewData.reviews, meta}) of the
\* App Store route; meta.hasMore = reviewData.hasMore
AppStoreResponse(reviews, hasMore) ==
    [status |-> "ok", reviews |-> reviews,
     nextPaginationToken |-> NoToken, hasMore |-> hasMore]

\* No export answer yet.
NoExport ==
    [status |-> "none", error |-> "", fileName |-> <<>>, reviewCount |-> 0,
     actualCount |-> 0]

(* --------------------------- the upstream ------------------------------ *)

\* What the store has for a request of `req` records after `offset`.
Served(req, offset) == Min(req, Max(avail - offset, 0))

\* gplay.reviews: the replies to a request of `req` records with `token`.
\* A reply is the page length and whether a continuation token comes with it.
PlayRegular(req, token) ==
    LET off == OffsetOf(token)
        k == Served(req, off)
    IN  [len |-> k, hasTok |-> off + k < avail]

PlayReplies(req, token) ==
    LET off == OffsetOf(token)
        lens == {Served(req, off)} \cup {s \in ShortLens : s < Served(req, off)}
        all == {[len |-> k, hasTok |-> b] : k \in lens, b \in BOOLEAN}
    IN  IF odd < MaxOdd THEN all ELSE {PlayRegular(req, token)}

\* appStore.reviews: the page lengths page `p` may come with.
AppStoreRegular(p) == Served(reviewsPerPage, (p - 1) * reviewsPerPage)

AppStoreReplies(p) ==
    IF odd < MaxOdd
    THEN {AppStoreRegular(p)} \cup {s \in ShortLens : s < AppStoreRegular(p)}
    ELSE {AppStoreRegular(p)}

(* ------------------------- bookkeeping of fetches ---------------------- *)

Call(p, n, tok, pag) ==
    [page |-> p, num |-> n, token |-> tok, paginate |-> pag,
     outcome |-> "pending", first |-> 0, len |-> 0, tokenOut |-> NoToken]

Issued(c) == Append(calls, c)

Answered(first, len, tokenOut) ==
    [calls EXCEPT ![Len(calls)] =
        [@ EXCEPT !.outcome = "ok", !.first = first, !.len = len,
                  !.tokenOut = tokenOut]]

Thrown == [calls EXCEPT ![Len(calls)] = [@ EXCEPT !.outcome = "fail"]]

(* ------------------ ReviewService (Google Play) ------------------------ *)

\* Variant: the batch path taken from 200 on (>= for >).
IsLargeDatasetFrom200(n) == n >= LargeDatasetLimit

\* getReviews: if (num > 200) return this.fetchLargeDataset(options)
IsLargeDataset(n) == n > LargeDatasetLimit

\* fetchLargeDataset: while (fetchedCount < num)
LoopCond(fc, n) == fc < n

\* Variant: every batch asks for the maximum.
currentBatchSizeFull(n, fc) == batchSize

\* fetchLargeDataset: Math.min(num - fetchedCount, batchSize)
currentBatchSize(n, fc) == Min(n - fc, batchSize)

\* fetchSingleBatch: num: Math.min(num, 200)
RequestNum(n) == Min(n, GplayRequestCap)

\* Variant: the batch loop hands the caller's paginate option on, and the
\* caller's token while it has none of its own.
PlayLoopHeadCallerOptions(reviews, fc, tok, cs) ==
    IF LoopCond(fc, num)
    THEN /\ Len(cs) < MaxCalls
         /\ calls' = Append(cs, Call(0, RequestNum(currentBatchSize(num, fc)),
                                     IF tok = NoToken THEN optToken ELSE tok,
                                     optPaginate))
         /\ pc' = "batch_await"
         /\ response' = response
    ELSE /\ calls' = cs
         /\ pc' = "done"
         /\ response' = PlayResponse(reviews, tok)

\* fetchLargeDataset, from the loop test to the next await or the return.
\* The caller's paginate and nextPaginationToken are not read here.
PlayLoopHead(reviews, fc, tok, cs) ==
    IF LoopCond(fc, num)
    THEN /\ Len(cs) < MaxCalls
         /\ calls' = Append(cs, Call(0, RequestNum(currentBatchSize(num, fc)), tok, TRUE))
         /\ pc' = "batch_await"
         /\ response' = response
    ELSE /\ calls' = cs
         /\ pc' = "done"
         /\ response' = PlayResponse(reviews, tok)

\* Route GET /:appId up to the first await of the service.
PlayGetReviews ==
    /\ pc = "start"
    /\ platform = "play"
    /\ IF IsLargeDataset(num)
       THEN PlayLoopHead(<<>>, 0, NoToken, calls)
       ELSE /\ calls' = Issued(Call(0, RequestNum(num), optToken, optPaginate))
            /\ pc' = "single_await"
            /\ response' = response
    /\ UNCHANGED <<platform, num, optPaginate, optToken, avail, odd, allReviews,
                   fetchedCount, nextToken, page, delays>>
    /\ UNCHANGED frameVars

\* fetchSingleBatch called by getReviews: gplay.reviews resolves.
PlaySingleOk ==
    /\ pc = "single_await"
    /\ \E r \in PlayReplies(calls[Len(calls)].num, calls[Len(calls)].token) :
         LET cur == calls[Len(calls)]
             off == OffsetOf(cur.token)
             tokOut == IF r.hasTok THEN TokenFor(off + r.len) ELSE NoToken
         IN  /\ odd' = IF r = PlayRegular(cur.num, cur.token) THEN odd ELSE odd + 1
             /\ calls' = Answered(off, r.len, tokOut)
             /\ response' = PlayResponse(Range(off, r.len), tokOut)
    /\ pc' = "done"
    /\ UNCHANGED <<platform, num, optPaginate, optToken, avail, allReviews,
                   fetchedCount, nextToken, page, delays>>
    /\ UNCHANGED frameVars

\* fetchSingleBatch called by getReviews: gplay.reviews rejects; the error is
\* rethrown and the route answers 500.
PlaySingleFail ==
    /\ pc = "single_await"
    /\ calls' = Thrown
    /\ pc' = "failed"
    /\ response' = ErrorResponse
    /\ UNCHANGED <<platform, num, optPaginate, optToken, avail, odd, allReviews,
                   fetchedCount, nextToken, page, delays>>
    /\ UNCHANGED frameVars

\* Variant: a batch that comes without a continuation token does not end
\* the loop.
PlayBatchOkTokenless ==
    /\ pc = "batch_await"
    /\ \E r \in PlayReplies(calls[Len(calls)].num, calls[Len(calls)].token) :
         LET cur == calls[Len(calls)]
             off == OffsetOf(cur.token)
             tokOut == IF r.hasTok THEN TokenFor(off + r.len) ELSE NoToken
             batch == Range(off, r.len)
         IN  /\ odd' = IF r = PlayRegular(cur.num, cur.token) THEN odd ELSE odd + 1
             /\ calls' = Answered(off, r.len, tokOut)
             /\ IF Len(batch) = 0
                THEN /\ pc' = "done"
                     /\ response' = PlayResponse(allReviews, nextToken)
                     /\ UNCHANGED <<allReviews, fetchedCount, nextToken, delays>>
                ELSE /\ allReviews' = allReviews \o batch
                     /\ fetchedCount' = fetchedCount + Len(batch)
                     /\ nextToken' = tokOut
                     /\ pc' = "batch_delay"
                     /\ response' = response
                     /\ delays' = delays + 1
    /\ UNCHANGED <<platform, num, optPaginate, optToken, avail, page>>
    /\ UNCHANGED frameVars

\* fetchLargeDataset: a batch resolves; the loop body up to the delay.
PlayBatchOk ==
    /\ pc = "batch_await"
    /\ \E r \in PlayReplies(calls[Len(calls)].num, calls[Len(calls)].token) :
         LET cur == calls[Len(calls)]
             off == OffsetOf(cur.token)
             tokOut == IF r.hasTok THEN TokenFor(off + r.len) ELSE NoToken
             batch == Range(off, r.len)
         IN  /\ odd' = IF r = PlayRegular(cur.num, cur.token) THEN odd ELSE odd + 1
             /\ calls' = Answered(off, r.len, tokOut)
             /\ IF Len(batch) = 0
                THEN \* empty batch: break, return
                     /\ pc' = "done"
                     /\ response' = PlayResponse(allReviews, nextToken)
                     /\ UNCHANGED <<allReviews, fetchedCount, nextToken, delays>>
                ELSE /\ allReviews' = allReviews \o batch
                     /\ fetchedCount' = fetchedCount + Len(batch)
                     /\ nextToken' = tokOut
                     /\ IF tokOut = NoToken
                        THEN \* no more pagination token: break, return
                             /\ pc' = "done"
                             /\ response' = PlayResponse(allReviews', tokOut)
                             /\ delays' = delays
                        ELSE /\ pc' = "batch_delay"
                             /\ response' = response
                             /\ delays' = delays + 1
    /\ UNCHANGED <<platform, num, optPaginate, optToken, avail, page>>
    /\ UNCHANGED frameVars

\* Variant: the batch loop catches the error and goes to the next iteration,
\* asking again with the same token.
PlayBatchFailRetry ==
    /\ pc = "batch_await"
    /\ PlayLoopHead(allReviews, fetchedCount, nextToken, Thrown)
    /\ UNCHANGED <<platform, num, optPaginate, optToken, avail, odd, allReviews,
                   fetchedCount, nextToken, page, delays>>
    /\ UNCHANGED frameVars

\* Variant: the batch loop catches the error, leaves the loop and returns
\* the batches it has.
PlayBatchFailPartial ==
    /\ pc = "batch_await"
    /\ calls' = Thrown
    /\ pc' = "done"
    /\ response' = PlayResponse(allReviews, nextToken)
    /\ UNCHANGED <<platform, num, optPaginate, optToken, avail, odd, allReviews,
                   fetchedCount, nextToken, page, delays>>
    /\ UNCHANGED frameVars

\* fetchLargeDataset: a batch rejects.  The loop has no try/catch: the error
\* leaves fetchLargeDataset and getReviews, and the route answers 500.
PlayBatchFail ==
    /\ pc = "batch_await"
    /\ calls' = Thrown
    /\ pc' = "failed"
    /\ response' = ErrorResponse
    /\ UNCHANGED <<platform, num, optPaginate, optToken, avail, odd, allReviews,
                   fetchedCount, nextToken, page, delays>>
    /\ UNCHANGED frameVars

\* fetchLargeDataset: the 500 ms timer fires; back to the loop test.
PlayDelayDone ==
    /\ pc = "batch_delay"
    /\ PlayLoopHead(allReviews, fetchedCount, nextToken, calls)
    /\ UNCHANGED <<platform, num, optPaginate, optToken, avail, odd, allReviews,
                   fetchedCount, nextToken, page, delays>>
    /\ UNCHANGED frameVars

(* ------------------------- AppStoreService ----------------------------- *)

\* route: if (numReviews <= 50) single page request
IsSinglePage(n) == n <= SinglePageLimit

\* Variant: one page more than the target needs.
totalPagesExtra(totalReviews) == Ceil(totalReviews, reviewsPerPage) + 1

\* Variant: Math.floor for Math.ceil.
totalPagesFloor(totalReviews) == totalReviews \div reviewsPerPage

\* getReviewsWithPagination: Math.ceil(totalReviews / reviewsPerPage)
totalPages(totalReviews) == Ceil(totalReviews, reviewsPerPage)

\* Variant: the page index is not advanced.
NextPageSame(p) == p

\* for (...; page++)
NextPage(p) == p + 1

\* allReviews.splice(totalReviews): keeps the first totalReviews elements
Splice(reviews, totalReviews) == SubSeq(reviews, 1, Min(totalReviews, Len(reviews)))

\* Variant: hasMore whenever anything was collected.
PaginationHasMoreNonEmpty(reviews, totalReviews) == Len(reviews) > 0

\* Variant: hasMore whenever the target was not exceeded.
PaginationHasMoreLoose(reviews, totalReviews) == Len(reviews) <= totalReviews

\* getReviewsWithPagination: hasMore: allReviews.length === totalReviews
PaginationHasMore(reviews, totalReviews) == Len(reviews) = totalReviews

\* getReviews: hasMore: result.length === 50
PageHasMore(reviews) == Len(reviews) = FullPage

\* getReviewsWithPagination: the return statement and the route's answer.
AsReturn(reviews) ==
    /\ pc' = "done"
    /\ response' = AppStoreResponse(reviews, PaginationHasMore(reviews, num))

\* getReviewsWithPagination, from the loop test to the next await or return.
AsLoopHead(p, reviews, cs) ==
    /\ page' = p
    /\ IF p <= totalPages(num)
       THEN /\ Len(cs) < MaxCalls
            /\ calls' = Append(cs, Call(p, 0, NoToken, TRUE))
            /\ pc' = "page_await"
            /\ response' = response
       ELSE /\ calls' = cs
            /\ AsReturn(reviews)

\* Route GET /appstore/:appId up to the first await of the service.
AppStoreRoute ==
    /\ pc = "start"
    /\ platform = "appstore"
    /\ IF IsSinglePage(num)
       THEN /\ calls' = Issued(Call(1, 0, NoToken, TRUE))
            /\ pc' = "one_await"
            /\ response' = response
            /\ page' = page
       ELSE AsLoopHead(1, <<>>, calls)
    /\ UNCHANGED <<platform, num, optPaginate, optToken, avail, odd, allReviews,
                   fetchedCount, nextToken, delays>>
    /\ UNCHANGED frameVars

\* getReviews called by the route: appStore.reviews resolves.
AsSingleOk ==
    /\ pc = "one_await"
    /\ \E k \in AppStoreReplies(calls[Len(calls)].page) :
         LET first == (calls[Len(calls)].page - 1) * reviewsPerPage
             reviews == Range(first, k)
         IN  /\ odd' = IF k = AppStoreRegular(calls[Len(calls)].page) THEN odd ELSE odd + 1
             /\ calls' = Answered(first, k, NoToken)
             /\ response' = AppStoreResponse(reviews, PageHasMore(reviews))
    /\ pc' = "done"
    /\ UNCHANGED <<platform, num, optPaginate, optToken, avail, allReviews,
                   fetchedCount, nextToken, page, delays>>
    /\ UNCHANGED frameVars

\* Variant: the single page swallows the error and answers with no reviews.
AsSingleFailEmpty ==
    /\ pc = "one_await"
    /\ calls' = Thrown
    /\ pc' = "done"
    /\ response' = AppStoreResponse(<<>>, FALSE)
    /\ UNCHANGED <<platform, num, optPaginate, optToken, avail, odd, allReviews,
                   fetchedCount, nextToken, page, delays>>
    /\ UNCHANGED frameVars

\* getReviews called by the route: appStore.reviews rejects; the route
\* answers 500.
AsSingleFail ==
    /\ pc = "one_await"
    /\ calls' = Thrown
    /\ pc' = "failed"
    /\ response' = ErrorResponse
    /\ UNCHANGED <<platform, num, optPaginate, optToken, avail, odd, allReviews,
                   fetchedCount, nextToken, page, delays>>
    /\ UNCHANGED frameVars

\* Variant: a page that is not full does not end the loop.
AsPageOkNoShortStop ==
    /\ pc = "page_await"
    /\ \E k \in AppStoreReplies(page) :
         LET first == (page - 1) * reviewsPerPage
             pageReviews == Range(first, k)
             pushed == allReviews \o pageReviews
         IN  /\ odd' = IF k = AppStoreRegular(page) THEN odd ELSE odd + 1
             /\ calls' = Answered(first, k, NoToken)
             /\ IF Len(pageReviews) = 0
                THEN /\ allReviews' = allReviews
                     /\ delays' = delays
                     /\ AsReturn(allReviews)
                ELSE IF Len(pushed) >= num
                THEN /\ allReviews' = Splice(pushed, num)
                     /\ delays' = delays
                     /\ AsReturn(allReviews')
                ELSE /\ allReviews' = pushed
                     /\ delays' = delays + 1
                     /\ pc' = "page_delay"
                     /\ response' = response
    /\ UNCHANGED <<platform, num, optPaginate, optToken, avail, fetchedCount,
                   nextToken, page>>
    /\ UNCHANGED frameVars

\* getReviewsWithPagination: a page resolves; the try block up to the delay.
AsPageOk ==
    /\ pc = "page_await"
    /\ \E k \in AppStoreReplies(page) :
         LET first == (page - 1) * reviewsPerPage
             pageReviews == Range(first, k)
             pushed == allReviews \o pageReviews
         IN  /\ odd' = IF k = AppStoreRegular(page) THEN odd ELSE odd + 1
             /\ calls' = Answered(first, k, NoToken)
             /\ IF Len(pageReviews) = 0
                THEN \* no more reviews: break
                     /\ allReviews' = allReviews
                     /\ delays' = delays
                     /\ AsReturn(allReviews)
                ELSE IF Len(pushed) >= num
                THEN \* reached the desired number: trim, break
                     /\ allReviews' = Splice(pushed, num)
                     /\ delays' = delays
                     /\ AsReturn(allReviews')
                ELSE IF Len(pageReviews) < reviewsPerPage
                THEN \* not a full page: break
                     /\ allReviews' = pushed
                     /\ delays' = delays
                     /\ AsReturn(pushed)
                ELSE /\ allReviews' = pushed
                     /\ delays' = delays + 1
                     /\ pc' = "page_delay"
                     /\ response' = response
    /\ UNCHANGED <<platform, num, optPaginate, optToken, avail, fetchedCount,
                   nextToken, page>>
    /\ UNCHANGED frameVars

\* Variant: a failed page leaves the loop as an error and the route answers
\* 500.
AsPageFailAborts ==
    /\ pc = "page_await"
    /\ calls' = Thrown
    /\ pc' = "failed"
    /\ response' = ErrorResponse
    /\ page' = page
    /\ UNCHANGED <<platform, num, optPaginate, optToken, avail, odd, allReviews,
                   fetchedCount, nextToken, delays>>
    /\ UNCHANGED frameVars

\* getReviewsWithPagination: a page rejects; catch, continue, page++.
AsPageFail ==
    /\ pc = "page_await"
    /\ AsLoopHead(NextPage(page), allReviews, Thrown)
    /\ UNCHANGED <<platform, num, optPaginate, optToken, avail, odd, allReviews,
                   fetchedCount, nextToken, delays>>
    /\ UNCHANGED frameVars

\* getReviewsWithPagination: the 1000 ms timer fires; page++, loop test.
AsDelayDone ==
    /\ pc = "page_delay"
    /\ AsLoopHead(NextPage(page), allReviews, calls)
    /\ UNCHANGED <<platform, num, optPaginate, optToken, avail, odd, allReviews,
                   fetchedCount, nextToken, delays>>
    /\ UNCHANGED frameVars

(* ----------------------- CSVService: the sanitizer --------------------- *)

\* removeEmojis: delete the emoji and symbol ranges, collapse white space,
\* trim
removeEmojis(text) ==
    Trim(CollapseSpaces(SelectSeq(text, LAMBDA c : ~IsEmoji(c))))

\* Variant: the delimiter character counts as a reason to quote as well.
NeedsQuotingDelimiter(escaped) ==
    \/ Includes(escaped, Comma)
    \/ Includes(escaped, Quote)
    \/ Includes(escaped, Newline)
    \/ Includes(escaped, Semicolon)

\* escapeCsvField: escaped.includes(',') || escaped.includes('"')
\*                 || escaped.includes('\n')
NeedsQuoting(escaped) ==
    \/ Includes(escaped, Comma)
    \/ Includes(escaped, Quote)
    \/ Includes(escaped, Newline)

\* Variant: the emoji are removed first and the blank test sees the result.
escapeCsvFieldStripFirst(field) ==
    IF field.type \in {"null", "undefined"} THEN NullText
    ELSE LET escaped == removeEmojis(field.chars)
         IN  IF escaped = <<>> \/ Trim(escaped) = <<>> THEN NanText
             ELSE IF NeedsQuoting(escaped)
             THEN <<Quote>> \o DoubleQuotes(escaped) \o <<Quote>>
             ELSE escaped

\* escapeCsvField: the value written for one text field
escapeCsvField(field) ==
    IF field.type \in {"null", "undefined"} THEN NullText
    ELSE LET original == field.chars
         IN  IF original = <<>> \/ Trim(original) = <<>> THEN NanText
             ELSE LET escaped == removeEmojis(original)
                  IN  IF escaped = <<>> \/ Trim(escaped) = <<>> THEN <<>>
                      ELSE IF NeedsQuoting(escaped)
                      THEN <<Quote>> \o DoubleQuotes(escaped) \o <<Quote>>
                      ELSE escaped

\* The request state of a behaviour that studies one function only.
Idle ==
    /\ platform = "play"
    /\ num = 1
    /\ optPaginate = FALSE
    /\ optToken = NoToken
    /\ avail = 0
    /\ odd = 0
    /\ pc = "idle"
    /\ allReviews = <<>>
    /\ fetchedCount = 0
    /\ nextToken = NoToken
    /\ page = 0
    /\ calls = <<>>
    /\ delays = 0
    /\ response = NoResponse
    /\ route = "none"
    /\ url = Undefined
    /\ appId = Undefined
    /\ clock = 0
    /\ files = <<>>
    /\ exportInfo = NoExport

\* How often the sanitizer is applied to its own output.
MaxApply == 2

\* Longest field text.
MaxFieldLen == 3

\* The characters field texts are made of: a letter, a space, a line feed,
\* a comma, a double quote, a semicolon, an emoji (U+1F600) and the
\* zero-width joiner.
FieldChars == {97, Space, Newline, Comma, Quote, Semicolon, 128512, 8205}

RECURSIVE Texts(_)
Texts(n) ==
    IF n = 0 THEN {<<>>}
    ELSE Texts(n - 1) \cup {Append(t, c) : t \in {u \in Texts(n - 1) : Len(u) = n - 1}, c \in FieldChars}

FieldValues == {Undefined, JsNull} \cup {Str(t) : t \in Texts(MaxFieldLen)}

SanitizeInit ==
    /\ Idle
    /\ arg \in FieldValues
    /\ ret = <<>>
    /\ fn = "none"

\* A caller hands a value to escapeCsvField.
Sanitize ==
    /\ ret = <<>>
    /\ ret' = <<escapeCsvField(arg)>>
    /\ fn' = "escapeCsvField"
    /\ UNCHANGED <<reqVars, route, url, appId, clock, files, exportInfo, arg>>

\* The value written is read back and handed to escapeCsvField again.
SanitizeAgain ==
    /\ ret # <<>>
    /\ Len(ret) < MaxApply
    /\ ret' = Append(ret, escapeCsvField(Str(ret[Len(ret)])))
    /\ UNCHANGED <<reqVars, route, url, appId, clock, files, exportInfo, arg, fn>>

SanitizeNext == Sanitize \/ SanitizeAgain

SanitizeSpec == SanitizeInit /\ [][SanitizeNext]_vars

(* ----------------------- CSVService: the export ------------------------ *)

\* The column names, as code points.
Col_id == <<105, 100>>    \* 'id'

Col_userName == <<117, 115, 101, 114, 78, 97, 109, 101>>    \* 'userName'

Col_title == <<116, 105, 116, 108, 101>>    \* 'title'

Col_content == <<99, 111, 110, 116, 101, 110, 116>>    \* 'content'

Col_score == <<115, 99, 111, 114, 101>>    \* 'score'

Col_date == <<100, 97, 116, 101>>    \* 'date'

Col_thumbsUp == <<116, 104, 117, 109, 98, 115, 85, 112>>    \* 'thumbsUp'

Col_version == <<118, 101, 114, 115, 105, 111, 110>>    \* 'version'


\* [...].join(';;')
Delimiter == <<Semicolon, Semicolon>>

\* parts.join(sep)
RECURSIVE Join(_, _)
Join(parts, sep) ==
    IF parts = <<>> THEN <<>>
    ELSE IF Len(parts) = 1 THEN parts[1]
    ELSE parts[1] \o sep \o Join(Tail(parts), sep)

\* The decimal text join() gives a non-negative integer.
RECURSIVE NumberText(_)
NumberText(n) ==
    IF n < 10 THEN <<48 + n>>
    ELSE NumberText(n \div 10) \o <<48 + (n % 10)>>

\* Where sep first occurs in s (0: nowhere).
FirstIndexOf(s, sep) ==
    LET hits == {i \in 1..(Len(s) - Len(sep) + 1) : SubSeq(s, i, i + Len(sep) - 1) = sep}
    IN  IF hits = {} THEN 0 ELSE CHOOSE i \in hits : \A j \in hits : i <= j

\* s.split(sep) for a non-empty sep
RECURSIVE Split(_, _)
Split(s, sep) ==
    LET i == FirstIndexOf(s, sep)
    IN  IF i = 0 THEN <<s>>
        ELSE <<SubSeq(s, 1, i - 1)>> \o Split(SubSeq(s, i + Len(sep), Len(s)), sep)

\* review.version || ''
OrEmpty(v) == IF v.type = "string" /\ v.chars # <<>> THEN v ELSE Str(<<>>)

\* exportReviewsToCSV: csvHeader
PlayHeader ==
    Join(<<Col_id, Col_userName, Col_content, Col_score, Col_date,
           Col_thumbsUp, Col_version>>, Delimiter)

\* exportReviewsToCSV: one element of csvRows
PlayRow(review) ==
    Join(<<escapeCsvField(review.id),
           escapeCsvField(review.userName),
           escapeCsvField(review.text),
           NumberText(review.score),
           escapeCsvField(review.date),
           NumberText(review.thumbsUp),
           escapeCsvField(OrEmpty(review.version))>>, Delimiter)

\* exportAppStoreReviewsToCSV: csvHeader
AppStoreHeader ==
    Join(<<Col_id, Col_userName, Col_title, Col_content, Col_score,
           Col_version, Col_date>>, Delimiter)

\* exportAppStoreReviewsToCSV: one element of csvRows
AppStoreRow(review) ==
    Join(<<escapeCsvField(review.id),
           escapeCsvField(review.userName),
           escapeCsvField(review.title),
           escapeCsvField(review.text),
           NumberText(review.score),
           escapeCsvField(review.version),
           escapeCsvField(review.date)>>, Delimiter)

\* csvContent = [csvHeader, ...csvRows].join('\n')
PlayCsvContent(reviews) ==
    Join(<<PlayHeader>> \o [i \in 1..Len(reviews) |-> PlayRow(reviews[i])],
         <<Newline>>)

AppStoreCsvContent(reviews) ==
    Join(<<AppStoreHeader>> \o [i \in 1..Len(reviews) |-> AppStoreRow(reviews[i])],
         <<Newline>>)

\* getExportStats: lines = content.split('\n').length - 1;
\*                 reviewCount: lines - 1
StatsReviewCount(content) == (Len(Split(content, <<Newline>>)) - 1) - 1

\* Most reviews in one export.
MaxRows == 2

\* The text fields of a review record.
TextFields == {"id", "userName", "title", "text", "date", "version"}

\* A review whose fields are all present and plain.
PlainReview ==
    [id |-> Str(<<97>>), userName |-> Str(<<97>>), title |-> Str(<<97>>),
     text |-> Str(<<97>>), score |-> 5, date |-> Str(<<97>>),
     thumbsUp |-> 12, version |-> Str(<<97>>)]

\* What one text field of a review may hold: nothing, a blank, an emoji, a
\* comma, a quote, a line feed, one semicolon, the delimiter.
CsvFieldValues ==
    {Undefined, JsNull, Str(<<>>), Str(<<Space>>), Str(<<128512>>),
     Str(<<97, Comma, 97>>), Str(<<97, Quote>>), Str(<<97, Newline, 97>>),
     Str(<<97, Semicolon>>), Str(<<97, Semicolon, Semicolon, 97>>)}

\* Reviews that differ from the plain one in one text field.
Reviews ==
    {[PlainReview EXCEPT ![f] = v] : f \in TextFields, v \in CsvFieldValues}

\* M reviews: one of them any review, the others plain.
ReviewLists ==
    {<<>>} \cup
    {[i \in 1..m |-> IF i = p THEN r ELSE PlainReview] :
        m \in 1..MaxRows, p \in 1..MaxRows, r \in Reviews}

CsvInit ==
    /\ Idle
    /\ arg \in ReviewLists
    /\ ret = <<>>
    /\ fn = "none"

\* exportReviewsToCSV: the content handed to writeFileSync
CsvExportPlay ==
    /\ ret = <<>>
    /\ ret' = <<PlayCsvContent(arg)>>
    /\ fn' = "exportReviewsToCSV"
    /\ UNCHANGED <<reqVars, route, url, appId, clock, files, exportInfo, arg>>

\* exportAppStoreReviewsToCSV: the content handed to writeFileSync
CsvExportAppStore ==
    /\ ret = <<>>
    /\ ret' = <<AppStoreCsvContent(arg)>>
    /\ fn' = "exportAppStoreReviewsToCSV"
    /\ UNCHANGED <<reqVars, route, url, appId, clock, files, exportInfo, arg>>

\* getExportStats: the file is read back and its reviews are counted
CsvStats ==
    /\ Len(ret) = 1
    /\ ret' = Append(ret, StatsReviewCount(ret[1]))
    /\ UNCHANGED <<reqVars, route, url, appId, clock, files, exportInfo, arg, fn>>

CsvNext == CsvExportPlay \/ CsvExportAppStore \/ CsvStats

CsvSpec == CsvInit /\ [][CsvNext]_vars

(* ----------------------- CSVService: URL parsing ----------------------- *)

IsDigit(c) == c \in 48..57

\* s has the literal lit at position i.
HasAt(s, i, lit) ==
    /\ i >= 1
    /\ i + Len(lit) - 1 <= Len(s)
    /\ SubSeq(s, i, i + Len(lit) - 1) = lit

\* The longest run of characters of s from position i on that are not in
\* Stop: what [^...]+ takes.
RECURSIVE RunUntil(_, _, _)
RunUntil(s, i, Stop) ==
    IF i <= Len(s) /\ s[i] \notin Stop
    THEN <<s[i]>> \o RunUntil(s, i + 1, Stop) ELSE <<>>

\* The longest run of digits of s from position i on: what \d+ takes.
RECURSIVE DigitRun(_, _)
DigitRun(s, i) ==
    IF i <= Len(s) /\ IsDigit(s[i])
    THEN <<s[i]>> \o DigitRun(s, i + 1) ELSE <<>>

\* The least element of a set of positions (0 for none): a regular
\* expression answers with its leftmost match.
Leftmost(S) == IF S = {} THEN 0 ELSE CHOOSE i \in S : \A j \in S : i <= j

NoMatch == [matched |-> FALSE, group |-> <<>>]

\* The match of a pattern that matches at the positions `hits`, group[i]
\* being what its parentheses capture when it matches at position i.
MatchOf(hits, group) ==
    IF hits = {} THEN NoMatch
    ELSE [matched |-> TRUE, group |-> group[Leftmost(hits)]]

\* url.match(/[?&]id=([^&]+)/)
MatchIdParam(s) ==
    MatchOf({i \in 1..Len(s) :
                /\ s[i] \in {63, 38}
                /\ HasAt(s, i + 1, <<105, 100, 61>>)    \* 'id='
                /\ i + 4 <= Len(s)
                /\ s[i + 4] # 38},
            [i \in 1..Len(s) |-> RunUntil(s, i + 4, {38})])

\* url.match(/\/id(\d+)/)
MatchId(s) ==
    MatchOf({i \in 1..Len(s) :
                /\ HasAt(s, i, <<47, 105, 100>>)    \* '/id'
                /\ i + 3 <= Len(s)
                /\ IsDigit(s[i + 3])},
            [i \in 1..Len(s) |-> DigitRun(s, i + 3)])

\* Where the name of /app/<name>/id<digits> ends when the pattern is tried
\* at position i (0: no match there): [^\/]+ takes every character up to the
\* next '/'.
NameEnd(s, i) ==
    LET name == RunUntil(s, i + 5, {47})
        j == i + 5 + Len(name)
    IN  IF /\ HasAt(s, i, <<47, 97, 112, 112, 47>>)    \* '/app/'
           /\ name # <<>>
           /\ HasAt(s, j, <<47, 105, 100>>)    \* '/id'
           /\ j + 3 <= Len(s)
           /\ IsDigit(s[j + 3])
        THEN j ELSE 0

\* url.match(/\/app\/[^\/]+\/id(\d+)/)
MatchAppNameId(s) ==
    MatchOf({i \in 1..Len(s) : NameEnd(s, i) # 0},
            [i \in 1..Len(s) |-> DigitRun(s, NameEnd(s, i) + 3)])

\* url.match(/\/app\/id(\d+)/)
MatchAppId(s) ==
    MatchOf({i \in 1..Len(s) :
                /\ HasAt(s, i, <<47, 97, 112, 112, 47, 105, 100>>)    \* '/app/id'
                /\ i + 7 <= Len(s)
                /\ IsDigit(s[i + 7])},
            [i \in 1..Len(s) |-> DigitRun(s, i + 7)])

\* Variant: the patterns listed from the most specific to the least.
PatternsSpecificFirst(s) == <<MatchAppNameId(s), MatchAppId(s), MatchId(s)>>

\* extractAppStoreIdFromUrl: const patterns = [...], each applied to the url
Patterns(s) == <<MatchId(s), MatchAppNameId(s), MatchAppId(s)>>

\* for (const pattern of patterns) if (match && match[1]) return match[1];
\* return null
RECURSIVE FirstGroup(_)
FirstGroup(matches) ==
    IF matches = <<>> THEN JsNull
    ELSE IF Head(matches).matched /\ Head(matches).group # <<>>
    THEN Str(Head(matches).group)
    ELSE FirstGroup(Tail(matches))

\* extractAppStoreIdFromUrl; a url without match() throws and the catch
\* returns null
extractAppStoreIdFromUrl(u) ==
    IF u.type # "string" THEN JsNull ELSE FirstGroup(Patterns(u.chars))

\* extractAppIdFromUrl: return match ? match[1] : null
extractAppIdFromUrl(u) ==
    IF u.type # "string" THEN JsNull
    ELSE IF MatchIdParam(u.chars).matched THEN Str(MatchIdParam(u.chars).group)
    ELSE JsNull

\* Most path segments of a url under study.
MaxSegments == 4

\* The path segments urls are made of.
Segments ==
    {<<47, 105, 100, 49>>,    \* '/id1'
     <<47, 105, 100, 50, 51>>,    \* '/id23'
     <<47, 105, 100>>,    \* '/id'
     <<47, 97, 112, 112>>,    \* '/app'
     <<47, 120>>,    \* '/x'
     <<63, 105, 100, 61, 97>>,    \* '?id=a'
     <<38, 105, 100, 61, 98>>}    \* '&id=b'

RECURSIVE Paths(_)
Paths(n) ==
    IF n = 0 THEN {<<>>}
    ELSE Paths(n - 1) \cup {p \o g : p \in Paths(n - 1), g \in Segments}

UrlInit ==
    /\ Idle
    /\ arg \in {Str(p) : p \in Paths(MaxSegments)}
    /\ ret = <<>>
    /\ fn = "none"

\* An App Store url is handed to extractAppStoreIdFromUrl.
ExtractAppStoreId ==
    /\ ret = <<>>
    /\ ret' = <<extractAppStoreIdFromUrl(arg)>>
    /\ fn' = "extractAppStoreIdFromUrl"
    /\ UNCHANGED <<reqVars, route, url, appId, clock, files, exportInfo, arg>>

\* A Play url is handed to extractAppIdFromUrl.
ExtractAppId ==
    /\ ret = <<>>
    /\ ret' = <<extractAppIdFromUrl(arg)>>
    /\ fn' = "extractAppIdFromUrl"
    /\ UNCHANGED <<reqVars, route, url, appId, clock, files, exportInfo, arg>>

UrlNext == ExtractAppStoreId \/ ExtractAppId

UrlSpec == UrlInit /\ [][UrlNext]_vars

(* ----------------------- routes: the num parameter --------------------- *)

\* A number of the program: an integer the model holds exactly, a finite
\* integer beyond that ("big", val its sign), an infinity (val its sign),
\* or NaN.
Exact(n) == [kind |-> "int", val |-> n]

Big(sign) == [kind |-> "big", val |-> sign]

Inf(sign) == [kind |-> "inf", val |-> sign]

NaN == [kind |-> "nan", val |-> 0]

\* String(value)
ToText(v) ==
    IF v.type = "string" THEN v.chars
    ELSE IF v.type = "null" THEN <<110, 117, 108, 108>>    \* 'null'
    ELSE <<117, 110, 100, 101, 102, 105, 110, 101, 100>>    \* 'undefined'

\* const { num = '100' } = req.query: the default replaces undefined only
WithDefault(v, text) == IF v.type = "undefined" THEN Str(text) ELSE v

\* The value of one digit in a radix (-1: not a digit).
DigitValue(c, radix) ==
    LET v == IF c \in 48..57 THEN c - 48
             ELSE IF c \in 97..122 THEN c - 87
             ELSE IF c \in 65..90 THEN c - 55
             ELSE -1
    IN  IF v < radix THEN v ELSE -1

\* The longest prefix of s made of digits of the radix, as digit values.
DigitPrefix(s, radix) ==
    LET others == {i \in 1..Len(s) : DigitValue(s[i], radix) < 0}
        n == IF others = {} THEN Len(s) ELSE Leftmost(others) - 1
    IN  [i \in 1..n |-> DigitValue(s[i], radix)]

\* The digits without their leading zeros.
StripZeros(d) ==
    LET first == Leftmost({i \in 1..Len(d) : d[i] # 0})
    IN  IF first = 0 THEN <<>> ELSE SubSeq(d, first, Len(d))

RECURSIVE ValueOf(_, _)
ValueOf(d, radix) ==
    IF d = <<>> THEN 0
    ELSE ValueOf(SubSeq(d, 1, Len(d) - 1), radix) * radix + d[Len(d)]

\* a >= b for digit sequences of one length
DigitsGeq(a, b) ==
    \/ a = b
    \/ \E i \in 1..Len(a) : a[i] > b[i] /\ \A j \in 1..(i - 1) : a[j] = b[j]

\* 2^1024 - 2^970 in decimal: from here on a number rounds to Infinity.
OverflowText ==
    <<
      49, 55, 57, 55, 54, 57, 51, 49, 51, 52, 56, 54, 50, 51, 49, 53, 56, 48,
      55, 57, 51, 55, 50, 56, 57, 55, 49, 52, 48, 53, 51, 48, 51, 52, 49, 53,
      48, 55, 57, 57, 51, 52, 49, 51, 50, 55, 49, 48, 48, 51, 55, 56, 50, 54,
      57, 51, 54, 49, 55, 51, 55, 55, 56, 57, 56, 48, 52, 52, 52, 57, 54, 56,
      50, 57, 50, 55, 54, 52, 55, 53, 48, 57, 52, 54, 54, 52, 57, 48, 49, 55,
      57, 55, 55, 53, 56, 55, 50, 48, 55, 48, 57, 54, 51, 51, 48, 50, 56, 54,
      52, 49, 54, 54, 57, 50, 56, 56, 55, 57, 49, 48, 57, 52, 54, 53, 53, 53,
      53, 52, 55, 56, 53, 49, 57, 52, 48, 52, 48, 50, 54, 51, 48, 54, 53, 55,
      52, 56, 56, 54, 55, 49, 53, 48, 53, 56, 50, 48, 54, 56, 49, 57, 48, 56,
      57, 48, 50, 48, 48, 48, 55, 48, 56, 51, 56, 51, 54, 55, 54, 50, 55, 51,
      56, 53, 52, 56, 52, 53, 56, 49, 55, 55, 49, 49, 53, 51, 49, 55, 54, 52,
      52, 55, 53, 55, 51, 48, 50, 55, 48, 48, 54, 57, 56, 53, 53, 53, 55, 49,
      51, 54, 54, 57, 53, 57, 54, 50, 50, 56, 52, 50, 57, 49, 52, 56, 49, 57,
      56, 54, 48, 56, 51, 52, 57, 51, 54, 52, 55, 53, 50, 57, 50, 55, 49, 57,
      48, 55, 52, 49, 54, 56, 52, 52, 52, 51, 54, 53, 53, 49, 48, 55, 48, 52,
      51, 52, 50, 55, 49, 49, 53, 53, 57, 54, 57, 57, 53, 48, 56, 48, 57, 51,
      48, 52, 50, 56, 56, 48, 49, 55, 55, 57, 48, 52, 49, 55, 52, 52, 57, 55,
      55, 57, 50 >>

OverflowDecimal == [i \in 1..Len(OverflowText) |-> OverflowText[i] - 48]

\* The same in hexadecimal: 256 digits, 13 times f, then c, then zeros.
OverflowHex ==
    [i \in 1..256 |-> IF i <= 13 THEN 15 ELSE IF i = 14 THEN 12 ELSE 0]

\* The number a run of significant digits stands for.
NumberOf(d, radix, sign) ==
    LET limit == IF radix = 10 THEN OverflowDecimal ELSE OverflowHex
        exact == IF radix = 10 THEN 9 ELSE 7
    IN  IF Len(d) <= exact THEN Exact(sign * ValueOf(d, radix))
        ELSE IF Len(d) > Len(limit) \/ (Len(d) = Len(limit) /\ DigitsGeq(d, limit))
        THEN Inf(sign)
        ELSE Big(sign)

\* parseInt(value): leading white space, sign, 0x prefix, digits
parseInt(v) ==
    LET s0 == TrimStart(ToText(v))
        sign == IF s0 # <<>> /\ s0[1] = 45 THEN -1 ELSE 1
        s1 == IF s0 # <<>> /\ s0[1] \in {43, 45} THEN Tail(s0) ELSE s0
        hex == Len(s1) >= 2 /\ s1[1] = 48 /\ s1[2] \in {120, 88}
        radix == IF hex THEN 16 ELSE 10
        s2 == IF hex THEN SubSeq(s1, 3, Len(s1)) ELSE s1
        d == DigitPrefix(s2, radix)
    IN  IF d = <<>> THEN NaN ELSE NumberOf(StripZeros(d), radix, sign)

\* n || fallback: NaN and 0 are falsy
OrElse(n, fallback) ==
    IF n.kind = "nan" \/ (n.kind = "int" /\ n.val = 0) THEN Exact(fallback) ELSE n

\* Math.max(n, 1)
AtLeastOne(n) ==
    IF n.kind = "int" THEN Exact(Max(n.val, 1))
    ELSE IF n.val < 0 THEN Exact(1) ELSE n

\* The default of the review endpoints and of the export endpoints.
DefaultNumGet == 100

DefaultNumExport == 500

\* const numReviews = Math.max(parseInt(num as string) || 100, 1)
numReviews(v, default) ==
    AtLeastOne(OrElse(parseInt(WithDefault(v, NumberText(default))), default))

\* Longest num text made of single characters.
MaxNumLen == 3

\* The characters num texts are made of: '-', '0', '1', '7', 'x', ' '.
NumChars == {45, 48, 49, 55, 120, 32}

RECURSIVE NumTexts(_)
NumTexts(n) ==
    IF n = 0 THEN {<<>>}
    ELSE NumTexts(n - 1) \cup {Append(t, c) : t \in NumTexts(n - 1), c \in NumChars}

\* Lengths of the long runs of the digit 9.
LongRuns == {12, 310}

\* The num parameter: missing, null, a short text, a long run of 9 with or
\* without a minus sign.
NumValues ==
    {Undefined, JsNull}
    \cup {Str(t) : t \in NumTexts(MaxNumLen)}
    \cup {Str([i \in 1..n |-> 57]) : n \in LongRuns}
    \cup {Str(<<45>> \o [i \in 1..n |-> 57]) : n \in LongRuns}

NumInit ==
    /\ Idle
    /\ arg \in NumValues
    /\ ret = <<>>
    /\ fn = "none"

\* GET /:appId and GET /appstore/:appId: the parameter is validated.
ParseNumGet ==
    /\ ret = <<>>
    /\ ret' = <<numReviews(arg, DefaultNumGet)>>
    /\ fn' = "numReviewsGet"
    /\ UNCHANGED <<reqVars, route, url, appId, clock, files, exportInfo, arg>>

\* POST /export/csv and POST /appstore/export/csv: the parameter is
\* validated.
ParseNumExport ==
    /\ ret = <<>>
    /\ ret' = <<numReviews(arg, DefaultNumExport)>>
    /\ fn' = "numReviewsExport"
    /\ UNCHANGED <<reqVars, route, url, appId, clock, files, exportInfo, arg>>

NumNext == ParseNumGet \/ ParseNumExport

NumSpec == NumInit /\ [][NumNext]_vars

(* ------------------------ routes: CSV export --------------------------- *)

\* Latest value Date.now() takes.
MaxClock == 1

\* A url that is not a string (a number in the JSON body).
NumberValue == [type |-> "number", chars |-> <<>>]

\* req.body.url of a Play export: missing, a number, empty, without an id
\* parameter, with one.
PlayUrls ==
    {Undefined, NumberValue, Str(<<>>),
     Str(<<100, 101, 116, 97, 105, 108, 115>>),    \* 'details'
     Str(<<63, 105, 100, 61, 99, 111, 109, 46, 97, 38, 104, 108, 61, 116, 114>>)}    \* '?id=com.a&hl=tr'

\* req.body.url of an App Store export: missing, a number, empty, without
\* an id segment, with one.
AppStoreUrls ==
    {Undefined, NumberValue, Str(<<>>),
     Str(<<47, 97, 112, 112, 47, 97>>),    \* '/app/a'
     Str(<<47, 97, 112, 112, 47, 97, 47, 105, 100, 49, 50>>)}    \* '/app/a/id12'

\* The apps other export requests are for.
OtherApps ==
    IF platform = "play"
    THEN {Str(<<99, 111, 109, 46, 97>>),    \* 'com.a'
          Str(<<99, 111, 109, 46, 98>>)}    \* 'com.b'
    ELSE {Str(<<49, 50>>),    \* '12'
          Str(<<51, 52>>)}    \* '34'

\* Lines of the files other export requests write.
OtherLineCounts == {3}

\* if (!url || typeof url !== 'string')
UrlMissing(u) == u.type # "string" \/ u.chars = <<>>

\* Variant: a missing app id is let through.
NoAppIdNever(id) == FALSE

\* if (!appId)
NoAppId(id) == id.type # "string" \/ id.chars = <<>>

\* Variant: an empty result is exported like any other.
NothingToExportNever(reviews) == FALSE

\* if (reviewData.reviews.length === 0)
NothingToExport(reviews) == Len(reviews) = 0

\* res.status(400).json({error: 'Invalid ... URL', message})
BadRequest ==
    [status |-> "bad_request", error |-> "Invalid URL", fileName |-> <<>>,
     reviewCount |-> 0, actualCount |-> 0]

\* res.status(404).json({error: 'No reviews found', message})
NotFound ==
    [status |-> "not_found", error |-> "No reviews found", fileName |-> <<>>,
     reviewCount |-> 0, actualCount |-> 0]

\* res.json({success: true, data: {exportInfo: stats, ...}, meta});
\* exportInfo.reviewCount is the count of getExportStats, meta.actualCount
\* is reviewData.reviews.length
ExportAnswer(fileName, reviewCount, actualCount) ==
    [status |-> "ok", error |-> "", fileName |-> fileName,
     reviewCount |-> reviewCount, actualCount |-> actualCount]

\* `${appId}_reviews_${Date.now()}.csv`, resp.
\* `appstore_${appId}_reviews_${Date.now()}.csv`
FileName(p, id, now) ==
    (IF p = "appstore" THEN <<97, 112, 112, 115, 116, 111, 114, 101, 95>> ELSE <<>>)    \* 'appstore_'
        \o id.chars
        \o <<95, 114, 101, 118, 105, 101, 119, 115, 95>>    \* '_reviews_'
        \o NumberText(now)
        \o <<46, 99, 115, 118>>    \* '.csv'

\* fs.writeFileSync(filePath, csvContent, 'utf8'): the file is created, or
\* its content replaced.  The content is the header and one line per review.
WriteFile(fs, name, writer, lines) ==
    IF name \in DOMAIN fs
    THEN [fs EXCEPT ![name] =
             [writer |-> writer, lines |-> lines, writes |-> @.writes + 1]]
    ELSE (name :> [writer |-> writer, lines |-> lines, writes |-> 1]) @@ fs

\* POST /export/csv and POST /appstore/export/csv up to the call of the
\* service: the url is checked and the app id extracted.
ExportValidate ==
    /\ pc = "validate"
    /\ \E id \in {IF platform = "play" THEN extractAppIdFromUrl(url)
                  ELSE extractAppStoreIdFromUrl(url)} :
         IF UrlMissing(url) \/ NoAppId(id)
         THEN /\ pc' = "rejected"
              /\ exportInfo' = BadRequest
              /\ appId' = appId
         ELSE /\ pc' = "start"
              /\ exportInfo' = exportInfo
              /\ appId' = id
    /\ UNCHANGED <<platform, num, optPaginate, optToken, avail, odd, allReviews,
                   fetchedCount, nextToken, page, calls, delays, response>>
    /\ UNCHANGED <<route, url, clock, files, arg, ret, fn>>

\* The service returned no review: 404, nothing is written.
ExportNotFound ==
    /\ pc = "done"
    /\ route = "export"
    /\ NothingToExport(response.reviews)
    /\ pc' = "notfound"
    /\ exportInfo' = NotFound
    /\ UNCHANGED <<platform, num, optPaginate, optToken, avail, odd, allReviews,
                   fetchedCount, nextToken, page, calls, delays, response>>
    /\ UNCHANGED <<route, url, appId, clock, files, arg, ret, fn>>

\* exportReviewsToCSV / exportAppStoreReviewsToCSV: the file named after the
\* app and the current millisecond is written.
ExportWrite ==
    /\ pc = "done"
    /\ route = "export"
    /\ ~NothingToExport(response.reviews)
    /\ \E now \in clock..MaxClock :
         /\ clock' = now
         /\ files' = WriteFile(files, FileName(platform, appId, now), "self",
                               Len(response.reviews) + 1)
         /\ exportInfo' = [exportInfo EXCEPT !.fileName = FileName(platform, appId, now)]
    /\ pc' = "written"
    /\ UNCHANGED <<platform, num, optPaginate, optToken, avail, odd, allReviews,
                   fetchedCount, nextToken, page, calls, delays, response>>
    /\ UNCHANGED <<route, url, appId, arg, ret, fn>>

\* getExportStats reads the file back; the route answers.
ExportStats ==
    /\ pc = "written"
    /\ exportInfo' = ExportAnswer(exportInfo.fileName,
                                  (files[exportInfo.fileName].lines - 1) - 1,
                                  Len(response.reviews))
    /\ pc' = "exported"
    /\ UNCHANGED <<platform, num, optPaginate, optToken, avail, odd, allReviews,
                   fetchedCount, nextToken, page, calls, delays, response>>
    /\ UNCHANGED <<route, url, appId, clock, files, arg, ret, fn>>

\* Another export request of the same platform reaches its writeFileSync.
\* At most one file of another request exists at a time.
OtherExportWrites ==
    /\ route = "export"
    /\ \A f \in DOMAIN files : files[f].writer # "other"
    /\ \E now \in clock..MaxClock, id \in OtherApps, lines \in OtherLineCounts :
         /\ clock' = now
         /\ files' = WriteFile(files, FileName(platform, id, now), "other", lines)
    /\ UNCHANGED <<platform, num, optPaginate, optToken, avail, odd, pc,
                   allReviews, fetchedCount, nextToken, page, calls, delays,
                   response>>
    /\ UNCHANGED <<route, url, appId, exportInfo, arg, ret, fn>>

(* ------------------------------- Init ---------------------------------- *)

Init ==
    /\ platform \in {"play", "appstore"}
    /\ route \in {"get", "export"}
    /\ num \in Targets
    /\ avail \in Avails
    /\ optPaginate \in (IF platform = "play"
                        THEN (IF route = "get" THEN BOOLEAN ELSE {FALSE})
                        ELSE {TRUE})
    /\ optToken \in (IF platform = "play" /\ route = "get"
                     THEN {NoToken, CallerToken} ELSE {NoToken})
    /\ url \in (IF route = "get" THEN {Undefined}
                ELSE IF platform = "play" THEN PlayUrls ELSE AppStoreUrls)
    /\ odd = 0
    /\ pc = (IF route = "export" THEN "validate" ELSE "start")
    /\ allReviews = <<>>
    /\ fetchedCount = 0
    /\ nextToken = NoToken
    /\ page = 0
    /\ calls = <<>>
    /\ delays = 0
    /\ response = NoResponse
    /\ appId = Undefined
    /\ clock = 0
    /\ files = <<>>
    /\ exportInfo = NoExport
    /\ arg = Undefined
    /\ ret = <<>>
    /\ fn = "none"

(* --------------------------- specifications ---------------------------- *)

Next ==
    \/ PlayGetReviews
    \/ PlaySingleOk
    \/ PlaySingleFail
    \/ PlayBatchOk
    \/ PlayBatchFail
    \/ PlayDelayDone
    \/ AppStoreRoute
    \/ AsSingleOk
    \/ AsSingleFail
    \/ AsPageOk
    \/ AsPageFail
    \/ AsDelayDone
    \/ ExportValidate
    \/ ExportNotFound
    \/ ExportWrite
    \/ ExportStats
    \/ OtherExportWrites

Spec == Init /\ [][Next]_vars

\* Every await of the code resolves or rejects, and every timer fires.
FairSpec == Spec /\ WF_vars(Next)

(* ------------------------ vocabulary of the claims --------------------- *)

Terminated ==
    IF route = "export"
    THEN pc \in {"rejected", "notfound", "exported", "failed"}
    ELSE pc \in {"done", "failed"}

PlayLarge == platform = "play" /\ num > LargeDatasetLimit

PlaySingle == platform = "play" /\ num <= LargeDatasetLimit

AppStoreMulti == platform = "appstore" /\ num > SinglePageLimit

AppStoreSingle == platform = "appstore" /\ num <= SinglePageLimit

\* No fetch of the request has thrown.
NeverFailed == \A i \in 1..Len(calls) : calls[i].outcome # "fail"

\* The upstream never fails, serves every page in full and gives a
\* continuation token exactly while records remain.
Regular == NeverFailed /\ odd = 0

\* Where the request starts reading: only the single Play batch passes the
\* caller's token on.
StartOffset == IF PlaySingle THEN OffsetOf(optToken) ELSE 0

\* Records the upstream holds from there on.
Available == Max(avail - StartOffset, 0)

\* The records fetch i brought.
PageOf(i) == Range(calls[i].first, calls[i].len)

\* Records the fetches before fetch i brought.
RECURSIVE FetchedBefore(_)
FetchedBefore(i) ==
    IF i <= 1 THEN 0 ELSE FetchedBefore(i - 1) + calls[i - 1].len

\* How many records of the answer come from fetch i.
Contribution(i) ==
    Cardinality({a \in 1..Len(response.reviews) :
        /\ calls[i].outcome = "ok"
        /\ response.reviews[a] > calls[i].first
        /\ response.reviews[a] <= calls[i].first + calls[i].len})

(* ------------------------------- C1 ------------------------------------ *)

\* C1 (as claimed): with an upstream that never fails and holds at least N
\* records, the answer is exactly the first N records of the upstream order.
C1_ExactlyFirstN ==
    (pc = "done" /\ Regular /\ Available >= num)
        => response.reviews = Range(StartOffset, num)

(* ------------------------------- C2 ------------------------------------ *)

C3_SinglePageTruncated ==
    (pc = "done" /\ (PlaySingle \/ AppStoreSingle))
        => /\ Len(calls) = 1
           /\ response.reviews = SubSeq(PageOf(1), 1, Min(num, calls[1].len))
           /\ Len(response.reviews) <= num

(* ------------------------------- C4 ------------------------------------ *)

\* C4 (as claimed): in the Play batch loop a failed fetch does not abort the
\* run; the next iteration requests again with the same token.
C4_FailureTolerated ==
    \A i \in 1..Len(calls) :
        (PlayLarge /\ calls[i].outcome = "fail")
            => /\ pc # "failed"
               /\ Len(calls) > i
               /\ calls[i + 1].token = calls[i].token

\* C4 (amended): in the Play batch loop a failed fetch aborts the run: it is
\* the last fetch of the request, and the caller gets the failure answer
\* without any of the records accumulated from earlier batches.
C4_FailureAborts ==
    \A i \in 1..Len(calls) :
        (PlayLarge /\ calls[i].outcome = "fail")
            => /\ pc = "failed"
               /\ i = Len(calls)
               /\ response.status = "error"
               /\ response.reviews = <<>>

C4_Witness ==
    /\ PlayLarge
    /\ Len(calls) >= 2
    /\ calls[Len(calls)].outcome = "fail"
    /\ Len(allReviews) > 0
    /\ pc = "failed"

(* ------------------------------- C5 ------------------------------------ *)

\* C5 (as claimed): when the first fetch of a request fails, the request
\* ends with the failure answer and no records, on every path.
C5_FirstFailureSurfaces ==
    (Len(calls) >= 1 /\ calls[1].outcome = "fail")
        => /\ response.status # "ok"
           /\ Terminated => response.status = "error"

\* C5 (amended): when the first fetch fails, both Play paths and the single
\* App Store page end with the failure answer and no records; the App Store
\* page loop catches the failure, goes on with the next page and answers
\* successfully with what the later pages brought.
C5_FirstFailureByPath ==
    (Len(calls) >= 1 /\ calls[1].outcome = "fail")
        => IF AppStoreMulti
           THEN /\ pc # "failed"
                /\ Len(calls) >= 2 => calls[2].page = 2
                /\ pc = "done"
                     => /\ response.status = "ok"
                        /\ \A a \in 1..Len(response.reviews) :
                               response.reviews[a] > reviewsPerPage
           ELSE /\ pc = "failed"
                /\ Len(calls) = 1
                /\ response.status = "error"
                /\ response.reviews = <<>>

C5_Witness ==
    /\ Len(calls) = 1
    /\ calls[1].outcome = "fail"
    /\ AppStoreSingle
    /\ response.status = "error"

(* ------------------------------- C6 ------------------------------------ *)

\* A loop iteration whose fetch succeeded.
LoopFetchSucceeds ==
    /\ pc \in {"batch_await", "page_await"}
    /\ Len(calls') = Len(calls)
    /\ calls'[Len(calls)].outcome = "ok"

\* C6: every request terminates when every fetch returns, and an iteration
\* whose fetch succeeds either adds records or leaves the loop.
C6_Terminates ==
    /\ <>Terminated
    /\ [][LoopFetchSucceeds
            => (Len(allReviews') > Len(allReviews) \/ pc' = "done")]_vars

C6_Witness ==
    /\ pc = "done"
    /\ Len(calls) >= 3
    /\ NeverFailed
    /\ delays >= 2

(* ------------------------------- C7 ------------------------------------ *)

\* C7: within one request no page is requested twice (page indices, resp.
\* continuation tokens, are pairwise distinct), every record of the answer
\* comes from exactly one fetch, and the answer holds no record twice.
C7_NoPageTwice ==
    /\ \A i \in 1..Len(calls) : \A j \in (i + 1)..Len(calls) :
           IF platform = "appstore"
           THEN calls[i].page # calls[j].page
           ELSE calls[i].token # calls[j].token
    /\ response.status = "ok"
         => /\ Cardinality({response.reviews[a] : a \in 1..Len(response.reviews)})
                 = Len(response.reviews)
            /\ \A a \in 1..Len(response.reviews) :
                   Cardinality({i \in 1..Len(calls) :
                       /\ calls[i].outcome = "ok"
                       /\ response.reviews[a] > calls[i].first
                       /\ response.reviews[a] <= calls[i].first + calls[i].len}) = 1

C7_Witness ==
    /\ pc = "done"
    /\ Len(calls) >= 3
    /\ Len(response.reviews) > 2 * reviewsPerPage

(* ------------------------------- C8 ------------------------------------ *)

\* C8: every fetch of the Play batch loop asks for min(target - accumulated,
\* 200) records; with full pages a target of 250 takes two fetches, asking
\* for 200 and then 50.
C8_BatchSizes ==
    PlayLarge
        => /\ \A i \in 1..Len(calls) :
                  calls[i].num = Min(num - FetchedBefore(i), 200)
           /\ (pc = "done" /\ Regular /\ num = 250 /\ avail >= 250)
                  => /\ Len(calls) = 2
                     /\ calls[1].num = 200
                     /\ calls[2].num = 50

C8_Witness ==
    /\ PlayLarge
    /\ pc = "done"
    /\ Regular
    /\ num = 250
    /\ Len(calls) = 2
    /\ calls[2].num = 50
    /\ Len(response.reviews) = 250

(* ------------------------------- C9 ------------------------------------ *)

\* C9: for an App Store target N > 50 and an upstream that never fails and
\* serves full pages, the fetches are exactly pages 1 .. ceil(N/50) in that
\* order, page i giving min(50, N - 50 (i - 1)) records of the answer
\* (N = 120: pages 1, 2, 3 giving 50, 50, 20).
C9_PageSequence ==
    (AppStoreMulti /\ pc = "done" /\ Regular /\ avail >= num)
        => /\ Len(calls) = (num + 49) \div 50
           /\ \A i \in 1..Len(calls) :
                  /\ calls[i].page = i
                  /\ Contribution(i) = Min(50, num - 50 * (i - 1))

C9_Witness ==
    /\ AppStoreMulti
    /\ pc = "done"
    /\ Regular
    /\ num = 120
    /\ Len(calls) = 3
    /\ Contribution(1) = 50
    /\ Contribution(2) = 50
    /\ Contribution(3) = 20

(* ------------------------------- C10 ----------------------------------- *)

\* C10: when the target fits in one page the request issues exactly one
\* upstream fetch and starts no pacing delay, whatever the fetch returns.
C10_OneFetchNoDelay ==
    (PlaySingle \/ AppStoreSingle)
        => /\ Len(calls) <= 1
           /\ delays = 0
           /\ pc \notin {"start", "validate", "rejected"} => Len(calls) = 1
           /\ pc \notin {"batch_await", "batch_delay", "page_await", "page_delay"}

C10_Witness ==
    /\ PlaySingle \/ AppStoreSingle
    /\ pc = "done"
    /\ Len(calls) = 1
    /\ calls[1].len < Available
    /\ delays = 0

(* ------------------------------- C11 ----------------------------------- *)

\* A value that is present and empty or white space only.
Blank(v) ==
    /\ v.type = "string"
    /\ \A i \in 1..Len(v.chars) : IsSpace(v.chars[i])

\* A value that is present, not blank, and made of emoji/symbol characters
\* (and white space between them) only.
EmojiOnly(v) ==
    /\ v.type = "string"
    /\ ~Blank(v)
    /\ \A i \in 1..Len(v.chars) : IsEmoji(v.chars[i]) \/ IsSpace(v.chars[i])

Absent(v) == v.type \in {"undefined", "null"}

\* C11 (as claimed): sanitizing an already sanitized field gives the same
\* text, for every input.
C11_Idempotent ==
    Len(ret) >= 2 => ret[2] = ret[1]

\* C11 (amended): sanitizing the sanitized text gives the same text for
\* absent input (Null), blank input (Nan) and input whose cleaned text is
\* not empty and holds neither a comma nor a double quote.  For emoji-only
\* input the first result is the empty text and the second is Nan; a text
\* that was quoted is quoted again, its quotes doubled.
C11_IdempotentUnlessEmptyOrQuoted ==
    (fn = "escapeCsvField" /\ Len(ret) >= 2)
        => LET clean == removeEmojis(arg.chars)
           IN  IF Absent(arg) THEN ret[1] = <<78, 117, 108, 108>> /\ ret[2] = ret[1]
               ELSE IF Blank(arg) THEN ret[1] = <<78, 97, 110>> /\ ret[2] = ret[1]
               ELSE IF EmojiOnly(arg) THEN ret[1] = <<>> /\ ret[2] = <<78, 97, 110>>
               ELSE IF Includes(clean, 44) \/ Includes(clean, 34)
               THEN /\ ret[1] = <<34>> \o DoubleQuotes(clean) \o <<34>>
                    /\ ret[2] = <<34>> \o DoubleQuotes(ret[1]) \o <<34>>
                    /\ ret[2] # ret[1]
               ELSE ret[1] = clean /\ ret[2] = ret[1]

C11_Witness ==
    /\ fn = "escapeCsvField"
    /\ Len(ret) = 2
    /\ ~Absent(arg) /\ ~Blank(arg) /\ ~EmojiOnly(arg)
    /\ ret[1] # arg.chars
    /\ ~Includes(ret[1], 34)
    /\ ret[2] = ret[1]

(* ------------------------------- C12 ----------------------------------- *)

\* C12: the sanitizer tells three cases apart, tested in this order: an
\* absent value gives Null, a present value that is empty or white space
\* only gives Nan, and a non-blank value made of emoji/symbol characters
\* only gives the empty text; no other value gives the empty text.
C12_TriState ==
    (fn = "escapeCsvField" /\ Len(ret) >= 1)
        => /\ Absent(arg) => ret[1] = <<78, 117, 108, 108>>
           /\ Blank(arg) => ret[1] = <<78, 97, 110>>
           /\ EmojiOnly(arg) => ret[1] = <<>>
           /\ (~Absent(arg) /\ ~Blank(arg) /\ ~EmojiOnly(arg)) => ret[1] # <<>>

C12_Witness ==
    /\ fn = "escapeCsvField"
    /\ Len(ret) >= 1
    /\ EmojiOnly(arg)
    /\ Len(arg.chars) >= 2
    /\ \E i \in 1..Len(arg.chars) : IsSpace(arg.chars[i])
    /\ ret[1] = <<>>

(* ------------------------------- C13 ----------------------------------- *)

\* The lines of the exported content.
CsvLines == Split(ret[1], <<10>>)

\* The fields of the i-th line, split on the delimiter.
CsvPieces(i) == Split(CsvLines[i], <<59, 59>>)

\* Column of each text field in the two schemas.
PlayColumn == [id |-> 1, userName |-> 2, text |-> 3, date |-> 5, version |-> 7]

AppStoreColumn ==
    [id |-> 1, userName |-> 2, title |-> 3, text |-> 4, version |-> 6, date |-> 7]

ColumnOf == IF fn = "exportReviewsToCSV" THEN PlayColumn ELSE AppStoreColumn

CsvExported == fn \in {"exportReviewsToCSV", "exportAppStoreReviewsToCSV"}

\* C13 (as claimed): in every exported row of either schema that splits
\* into its 7 fields, a text field that is absent in the review is written
\* as Null and one that is empty or white space is written as Nan, the Play
\* version field included.
C13_AbsentNullBlankNan ==
    CsvExported
        => \A i \in 1..Len(arg) : \A f \in DOMAIN ColumnOf :
               (Len(CsvLines) = Len(arg) + 1 /\ Len(CsvPieces(i + 1)) = 7)
                   => /\ Absent(arg[i][f])
                          => CsvPieces(i + 1)[ColumnOf[f]] = <<78, 117, 108, 108>>
                      /\ Blank(arg[i][f])
                          => CsvPieces(i + 1)[ColumnOf[f]] = <<78, 97, 110>>

(* ------------------------------- C14 ----------------------------------- *)

\* C14 (as claimed): M reviews give M + 1 lines, the header first, and every
\* line splits on ';;' into exactly 7 fields, whatever the text fields hold.
C14_LinesAndFields ==
    CsvExported
        => /\ Len(CsvLines) = Len(arg) + 1
           /\ CsvLines[1] = (IF fn = "exportReviewsToCSV" THEN PlayHeader
                             ELSE AppStoreHeader)
           /\ \A i \in 1..Len(CsvLines) : Len(CsvPieces(i)) = 7

(* ------------------------------- C15 ----------------------------------- *)

\* C15 (as claimed): an export file is never written again: whatever the
\* interleaving of export requests, every file of the export directory has
\* been written exactly once.
C15_FilesWrittenOnce ==
    \A f \in DOMAIN files : files[f].writes = 1

(* ------------------------------- C16 ----------------------------------- *)

\* The url of the request is missing, is not a string, or holds no app
\* identifier.
UnusableUrl ==
    \/ url.type # "string"
    \/ url.chars = <<>>
    \/ platform = "play" /\ ~MatchIdParam(url.chars).matched
    \/ platform = "appstore" /\ ~MatchId(url.chars).matched

WroteFile == \E f \in DOMAIN files : files[f].writer = "self"

C17_EmptyResult ==
    avail = 0
        => /\ (route = "get" /\ pc = "done")
                => response.status = "ok" /\ response.reviews = <<>>
           /\ route = "export"
                => /\ pc \notin {"written", "exported"}
                   /\ ~WroteFile
                   /\ pc = "notfound"
                        => /\ exportInfo.status = "not_found"
                           /\ exportInfo.error = "No reviews found"
                           /\ exportInfo.fileName = <<>>

C17_Witness ==
    /\ avail = 0
    /\ route = "export"
    /\ pc = "notfound"
    /\ Len(calls) >= 1
    /\ NeverFailed
    /\ exportInfo.error = "No reviews found"

(* ------------------------------- C18 ----------------------------------- *)

NumParsed == fn \in {"numReviewsGet", "numReviewsExport"}

\* C18 (as claimed): the target count is an integer of at least 1 for every
\* value of the num parameter, and no upper bound is applied: a text of
\* digits that stands for p >= 1 gives p.
C18_IntegerAtLeastOne ==
    NumParsed
        => /\ ret[1].kind \in {"int", "big"}
           /\ ret[1].kind = "int" => ret[1].val >= 1
           /\ ret[1].kind = "big" => ret[1].val = 1
           /\ \A p \in {1, 7, 70, 201, 777} :
                  (arg.type = "string" /\ arg.chars = NumberText(p))
                      => ret[1] = [kind |-> "int", val |-> p]

(* ------------------------------- C19 ----------------------------------- *)

\* Positions of the url where '/id' is followed by a digit.
IdHits ==
    {i \in 1..(Len(arg.chars) - 3) :
        /\ arg.chars[i] = 47
        /\ arg.chars[i + 1] = 105
        /\ arg.chars[i + 2] = 100
        /\ arg.chars[i + 3] \in 48..57}

\* C19 (as claimed): the patterns are tried from the most specific to the
\* least specific and the digits captured by the first one that matches are
\* returned, null when none matches; so a url .../app/<name>/id<digits>
\* gives exactly <digits>.
C19_MostSpecificFirst ==
    fn = "extractAppStoreIdFromUrl"
        => ret[1] = FirstGroup(<<MatchAppNameId(arg.chars), MatchAppId(arg.chars),
                                 MatchId(arg.chars)>>)

\* C19 (amended): the patterns are tried from the least specific to the most
\* specific; the first one, '/id' followed by digits, matches whenever any
\* pattern does, so the result is the run of digits after the leftmost '/id'
\* that a digit follows, and null when the url has none.  A url
\* .../app/<name>/id<digits> gives <digits> unless an earlier '/id<digit>'
\* occurs in it.
C19_LeftmostIdDigits ==
    fn = "extractAppStoreIdFromUrl"
        => IF IdHits = {}
           THEN ret[1] = JsNull
           ELSE \E i \in IdHits :
                    /\ \A j \in IdHits : i <= j
                    /\ ret[1] = Str(DigitRun(arg.chars, i + 3))

C19_Witness ==
    /\ fn = "extractAppStoreIdFromUrl"
    /\ MatchAppNameId(arg.chars).matched
    /\ MatchAppNameId(arg.chars).group # MatchId(arg.chars).group
    /\ ret[1] = Str(MatchId(arg.chars).group)

(* ------------------------------- C20 ----------------------------------- *)

\* The page size fetch i is measured against: what the batch asked for
\* (Play), 50 (App Store).
NominalSize(i) == IF platform = "play" THEN calls[i].num ELSE 50

ShortPage(i) == calls[i].outcome = "ok" /\ calls[i].len < NominalSize(i)

\* C20 (as claimed): in a multi-page aggregation of either platform a page
\* shorter than its nominal size is the last fetch of the run, with or
\* without a continuation token.
C20_ShortPageStops ==
    (PlayLarge \/ AppStoreMulti)
        => \A i \in 1..Len(calls) :
               ShortPage(i) => i = Len(calls) /\ pc \in {"done", "notfound", "written", "exported"}

\* C20 (amended): in the App Store page loop a page of fewer than 50 records
\* is the last fetch of the run.  In the Play batch loop a short page ends
\* the run only if it is empty or comes without a continuation token; a
\* non-empty short page with a token is followed, after the pacing delay, by
\* the next fetch with that token.
C20_ShortPageStopsAppStore ==
    /\ AppStoreMulti
         => \A i \in 1..Len(calls) :
                ShortPage(i)
                    => i = Len(calls) /\ pc \in {"done", "notfound", "written", "exported"}
    /\ PlayLarge
         => \A i \in 1..Len(calls) :
                ShortPage(i)
                    => IF calls[i].len = 0 \/ calls[i].tokenOut = NoToken
                       THEN i = Len(calls) /\ pc \in {"done", "notfound", "written", "exported"}
                       ELSE IF i = Len(calls)
                       THEN pc = "batch_delay"
                       ELSE calls[i + 1].token = calls[i].tokenOut

C20_Witness ==
    /\ PlayLarge
    /\ Len(calls) >= 2
    /\ ShortPage(1)
    /\ calls[1].len > 0
    /\ calls[2].token = calls[1].tokenOut
    /\ calls[2].outcome = "ok"

(* ------------------------------- C21 ----------------------------------- *)

\* The service has returned its result to the route.
ServiceReturned == pc \in {"done", "notfound", "written", "exported"}

\* The records the successful fetches 1..i brought, in order.
RECURSIVE Accumulated(_)
Accumulated(i) ==
    IF i = 0 THEN <<>>
    ELSE Accumulated(i - 1) \o (IF calls[i].outcome = "ok" THEN PageOf(i) ELSE <<>>)

\* Fetch i told the loop that the source is exhausted: an empty page, or on
\* Play a page without continuation token.
SignalsExhaustion(i) ==
    /\ calls[i].outcome = "ok"
    /\ \/ calls[i].len = 0
       \/ platform = "play" /\ calls[i].tokenOut = NoToken

\* C21: in a multi-page run, a fetch that signals exhaustion is the last
\* fetch of the run, and the run returns exactly the records accumulated up
\* to and including that fetch.
C21_ExhaustionStops ==
    (PlayLarge \/ AppStoreMulti)
        => \A i \in 1..Len(calls) :
               SignalsExhaustion(i)
                   => /\ i = Len(calls)
                      /\ ServiceReturned
                      /\ response.status = "ok"
                      /\ response.reviews = Accumulated(i)

C21_Witness ==
    /\ PlayLarge
    /\ Len(calls) = 2
    /\ calls[1].outcome = "ok"
    /\ calls[1].tokenOut # NoToken
    /\ SignalsExhaustion(2)
    /\ calls[2].len > 0
    /\ Len(response.reviews) = calls[1].len + calls[2].len
    /\ Len(response.reviews) < num
    /\ ServiceReturned

(* ------------------------------- C22 ----------------------------------- *)

\* The step in which the pending page fetch of the App Store loop rejects.
PageFetchFails ==
    /\ AppStoreMulti
    /\ pc = "page_await"
    /\ Len(calls') >= Len(calls)
    /\ calls'[Len(calls)].outcome = "fail"

\* C22: in the App Store page loop a failed page fetch does not abort the
\* run.  The step that handles the failure keeps the accumulated records
\* and either requests the next page index or returns successfully; the
\* failed page is never requested again and the run never ends in an error.
C22_FailedPageSkipped ==
    /\ [](AppStoreMulti
            => /\ pc # "failed"
               /\ response.status # "error"
               /\ \A i \in 1..Len(calls) :
                      calls[i].outcome = "fail"
                          => /\ \A j \in 1..Len(calls) :
                                    j # i => calls[j].page # calls[i].page
                             /\ i < Len(calls) => calls[i + 1].page = calls[i].page + 1
                             /\ i = Len(calls) => ServiceReturned /\ response.status = "ok")
    /\ [][PageFetchFails
            => /\ allReviews' = allReviews
               /\ page' = page + 1
               /\ \/ pc' = "page_await" /\ calls'[Len(calls')].page = page + 1
                  \/ pc' = "done" /\ response'.status = "ok"
                                  /\ response'.reviews = allReviews]_vars

C22_Witness ==
    /\ AppStoreMulti
    /\ Len(calls) >= 3
    /\ calls[1].outcome = "ok"
    /\ calls[2].outcome = "fail"
    /\ calls[3].outcome = "ok"
    /\ calls[3].page = 3
    /\ pc = "done"
    /\ Len(response.reviews) = calls[1].len + calls[3].len
    /\ calls[1].len > 0
    /\ calls[3].len > 0

(* ------------------------------- C23 ----------------------------------- *)

\* The successful fetches among the fetches 1..n.
OkFetches(n) == {i \in 1..n : calls[i].outcome = "ok"}

\* C23 (as claimed): in a multi-page run only the latest fetch can be
\* outstanding and none is outstanding while a pacing delay runs; every
\* delay was started by a successful fetch, and once the run has returned
\* every delay was followed by a further fetch (there are no more delays
\* than successful fetches that have a successor).
C23_DelaysBetweenFetches ==
    (PlayLarge \/ AppStoreMulti)
        => /\ \A i \in 1..Len(calls) :
                  calls[i].outcome = "pending"
                      => i = Len(calls) /\ pc \in {"batch_await", "page_await"}
           /\ pc \in {"batch_delay", "page_delay"}
                  => calls[Len(calls)].outcome = "ok"
           /\ delays <= Cardinality(OkFetches(Len(calls)))
           /\ (ServiceReturned \/ pc = "failed")
                  => delays <= Cardinality(OkFetches(Len(calls) - 1))

(* ------------------------------- C24 ----------------------------------- *)

\* s holds the two-character field delimiter ';;'.
HasDelimiter(s) ==
    \E i \in 1..(Len(s) - 1) : s[i] = Semicolon /\ s[i + 1] = Semicolon

\* The value reaches the quoting step: it is a string that is neither blank
\* nor emptied by the emoji removal.
ReachesQuoting(v) == ~Absent(v) /\ ~Blank(v) /\ ~EmojiOnly(v)

\* C24 (as claimed): a sanitized text that holds the delimiter ';;', a
\* double quote or a line feed is written between double quotes with every
\* double quote doubled; any other sanitized text is written as it is.
C24_QuotedIffDelimiterQuoteNewline ==
    (fn = "escapeCsvField" /\ ReachesQuoting(arg))
        => LET sanitized == removeEmojis(arg.chars)
           IN  IF \/ HasDelimiter(sanitized)
                  \/ Includes(sanitized, Quote)
                  \/ Includes(sanitized, Newline)
               THEN ret[1] = <<Quote>> \o DoubleQuotes(sanitized) \o <<Quote>>
               ELSE ret[1] = sanitized

(* ------------------------------- C25 ----------------------------------- *)

\* C25 (as claimed): for a file exported from M >= 1 reviews, the
\* reviewCount getExportStats computes from the file equals M, the number
\* of review rows (the lines after the header).
C25_StatsCountRows ==
    (CsvExported /\ Len(ret) = 2 /\ Len(arg) >= 1)
        => /\ ret[2] = Len(arg)
           /\ ret[2] = Len(CsvLines) - 1

(* ------------------------------- C26 ----------------------------------- *)

AllFailed == \A i \in 1..Len(calls) : calls[i].outcome = "fail"

\* C27: an App Store page loop with target N makes at most ceil(N/50) fetch
\* attempts, failed ones included, and asks for no page index above
\* ceil(N/50); when every attempt fails it returns after exactly ceil(N/50)
\* attempts, successfully and with no records.
C27_AttemptsBounded ==
    (platform = "appstore" /\ num > 50)
        => /\ Len(calls) <= (num + 49) \div 50
           /\ \A i \in 1..Len(calls) :
                  calls[i].page >= 1 /\ calls[i].page <= (num + 49) \div 50
           /\ (AllFailed /\ Len(calls) >= 1 /\ pc # "page_await")
                  => /\ Len(calls) = (num + 49) \div 50
                     /\ ServiceReturned
                     /\ response.status = "ok"
                     /\ response.reviews = <<>>

C27_Witness ==
    /\ platform = "appstore"
    /\ num = 251
    /\ Len(calls) = 6
    /\ AllFailed
    /\ ServiceReturned
    /\ response.status = "ok"
    /\ response.reviews = <<>>

(* ------------------------------- C28 ----------------------------------- *)

\* The last fetch of the run brought an empty page or fewer than 50 records.
LastPageNotFull ==
    /\ Len(calls) >= 1
    /\ calls[Len(calls)].outcome = "ok"
    /\ calls[Len(calls)].len < 50

\* The page loop has returned through one of its two exhaustion exits: on
\* an empty page, or on a page of fewer than 50 records that did not
\* complete the target.
StoppedOnExhaustion ==
    /\ ServiceReturned
    /\ LastPageNotFull
    /\ calls[Len(calls)].len = 0 \/ Len(response.reviews) < num

====
